---- MODULE Spec2Model ----
(***************************************************************************)
(* Model of the IMC management system (solmuz/imc_ivg): the MySQL schema   *)
(* with its BMI triggers and stored procedures (schema.sql), and the       *)
(* Express project controller that writes projects and audit entries,      *)
(* the ownership middleware (auth.middleware.js) and the audit model        *)
(* (audit.model.js).                                                        *)
(*                                                                         *)
(* Decimal columns are fixed point: weight_kg, height_m and bmi are kept   *)
(* in hundredths (70.50 kg is 7050, 1.75 m is 175, 23.02 is 2302).         *)
(* NULL in an integer or timestamp column is 0; ids and the clock start    *)
(* at 1.                                                                   *)
(***************************************************************************)
EXTENDS Integers, Sequences, FiniteSets

VARIABLES
    projects,     \* table projects: sequence of rows, index = id
    volunteers,   \* table volunteers: sequence of rows, index = id
    audit,        \* table audit_trail: sequence of rows, index = id
    now,          \* CURRENT_TIMESTAMP
    strict,       \* sql_mode of the server: TRUE = strict (out of range is an error)
    faults,       \* TRUE when a statement may fail for a storage reason
    meas,         \* the <<weight, height>> pairs callers send in this behaviour
    sessions,     \* concurrent connections, each inside one procedure call
    applied,      \* history: domain writes persisted, per <<entity, id, action>>
    succeeded,    \* history: calls that returned success, per <<entity, id, action>>
    last,         \* the response of the latest call
    found,        \* the pages of Audit.findAll a client holds for one filter set
    users,        \* table users: per id, status, failed logins and lock
    tokens,       \* the ids of the users holding a token that has not expired
    logins        \* concurrent POST /login requests, each inside the handler

vars == <<projects, volunteers, audit, now, strict, faults, meas, sessions,
          applied, succeeded, last, found, users, tokens, logins>>

\* the state of authentication
authVars == <<users, tokens, logins>>

----------------------------------------------------------------------------
(* Bounds of the model *)

MaxProjects == 2
MaxVolunteers == 2
MaxWrites == 4
MaxFaultWrites == 3
MaxTime == 2
MaxDelWrites == 3
MaxProjWrites == 3
MaxEntries == 3
MaxLimit == 2
MaxSweepTime == 3
MaxLockPeriods == 2
NumLogins == 6
NumProcs == 2
WeightStep == 2500

(* Program constants *)

Null == 0
BmiColumnMax == 9999
LowThreshold == 1800
HighThreshold == 2700
WeightMax == 50000
HeightMin == 100
HeightMax == 250
CorrelativeOffset == 11
DescriptionMax == 500
ReasonMax == 500
DeletionPrefixLen == 15
ReasonPrefixLen == 9
DefaultReasonLen == 15
SixMonths == 1
MaxLoginAttempts == 5
AccountLockoutMinutes == 15

\* one account per role
Users == {1, 2, 3}
Procs == 1..NumProcs

\* users.user_role of the three accounts of the model
Role(u) == CASE u = 1 -> "Administrador"
             [] u = 2 -> "Usuario"
             [] OTHER -> "Calidad"

Genders == {"Male", "Female"}

\* a field a request body or a snapshot does not carry
Absent == "absent"
Statuses == {"Activo", "Cerrado", "Archivado"}

----------------------------------------------------------------------------
(* BMI: the body shared by the two triggers *)

\* ROUND(x, 2) of the exact quotient num/den (both > 0), half away from zero
RoundHalfUp(num, den) == (2 * num + den) \div (2 * den)

\* NEW.weight_kg / (NEW.height_m * NEW.height_m): a DECIMAL quotient, kept
\* with the dividend's 2 decimals plus 4 (div_precision_increment), rounded;
\* the result in millionths, for num/den in hundredths
DecimalDiv(num, den) ==
    (num \div den) * 10000 + RoundHalfUp((num % den) * 10000, den)

\* ROUND(NEW.weight_kg / (NEW.height_m * NEW.height_m), 2), in hundredths
BmiValue(w, h) == RoundHalfUp(DecimalDiv(w * 10000, h * h), 10000)

\* IF NEW.bmi < 18.00 ... ELSEIF NEW.bmi <= 27.00 ... ELSE ...
BmiCategory(b) == IF b < LowThreshold THEN "Low"
                  ELSE IF b <= HighThreshold THEN "Normal"
                  ELSE "High"

BmiColor(b) == IF b < LowThreshold THEN "Yellow"
               ELSE IF b <= HighThreshold THEN "Green"
               ELSE "Red"

\* Assignment to the column bmi DECIMAL(4,2): a value above 99.99 is an error
\* in strict mode and is clamped to 99.99 otherwise.
BmiFits(b) == b <= BmiColumnMax
BmiStored(b) == IF b <= BmiColumnMax THEN b ELSE BmiColumnMax

----------------------------------------------------------------------------
(* The correlative label: CONCAT('Voluntario ', n) and its parse *)

LabelPrefix == <<"V", "o", "l", "u", "n", "t", "a", "r", "i", "o", " ">>

DigitChars == <<"0", "1", "2", "3", "4", "5", "6", "7", "8", "9">>

RECURSIVE Digits(_)
Digits(n) == IF n < 10 THEN <<DigitChars[n + 1]>>
             ELSE Digits(n \div 10) \o <<DigitChars[(n % 10) + 1]>>

\* CONCAT('Voluntario ', next_correlative)
Concat(n) == LabelPrefix \o Digits(n)

\* SUBSTRING(s, pos): from the 1-based position pos to the end
Substring(s, pos) == SubSeq(s, pos, Len(s))

DigitValue(c) == CHOOSE d \in 0..9 : DigitChars[d + 1] = c
IsDigit(c) == \E d \in 0..9 : DigitChars[d + 1] = c

RECURSIVE LeadingNumber(_, _)
LeadingNumber(s, acc) ==
    IF s = <<>> \/ ~IsDigit(Head(s)) THEN acc
    ELSE LeadingNumber(Tail(s), 10 * acc + DigitValue(Head(s)))

RECURSIVE SkipSpaces(_)
SkipSpaces(s) == IF s # <<>> /\ Head(s) = " " THEN SkipSpaces(Tail(s)) ELSE s

\* CAST(s AS UNSIGNED): leading blanks skipped, then the leading digits; 0 if none
CastUnsigned(s) == LeadingNumber(SkipSpaces(s), 0)

\* the number a stored label carries, as the procedure reads it
CorrelativeNumber(label) == CastUnsigned(Substring(label, CorrelativeOffset))

----------------------------------------------------------------------------
(* Triggers and constraints of table volunteers *)

\* CREATE TRIGGER calculate_bmi_before_insert: NEW as stored
CalculateBmiBeforeInsert(new) ==
    LET b == BmiStored(BmiValue(new.weight_kg, new.height_m))
    IN  [new EXCEPT !.bmi = b, !.bmi_category = BmiCategory(b), !.bmi_color = BmiColor(b)]

\* CREATE TRIGGER calculate_bmi_before_update: NEW as stored, t = CURRENT_TIMESTAMP
CalculateBmiBeforeUpdate(old, new, t) ==
    LET b  == BmiStored(BmiValue(new.weight_kg, new.height_m))
        r1 == IF new.weight_kg # old.weight_kg \/ new.height_m # old.height_m
              THEN [new EXCEPT !.bmi = b, !.bmi_category = BmiCategory(b),
                               !.bmi_color = BmiColor(b)]
              ELSE new
    IN  IF r1.is_deleted /\ ~old.is_deleted THEN [r1 EXCEPT !.deleted_at = t] ELSE r1

\* SET NEW.bmi = ... raises "out of range" in strict mode
InsertTriggerRaises(new) ==
    strict /\ ~BmiFits(BmiValue(new.weight_kg, new.height_m))

UpdateTriggerRaises(old, new) ==
    /\ strict
    /\ new.weight_kg # old.weight_kg \/ new.height_m # old.height_m
    /\ ~BmiFits(BmiValue(new.weight_kg, new.height_m))

\* updated_at TIMESTAMP ... ON UPDATE CURRENT_TIMESTAMP: set when the UPDATE
\* changes a column of the row
OnUpdateTimestamp(old, new, t) ==
    IF new # old THEN [new EXCEPT !.updated_at = t] ELSE new

\* UNIQUE INDEX uk_correlative_project (project_id, volunteer_correlative)
UkCorrelativeProject(vols, new) ==
    \A i \in DOMAIN vols :
        ~(vols[i].project_id = new.project_id
          /\ vols[i].volunteer_correlative = new.volunteer_correlative)

----------------------------------------------------------------------------
(* Statements of the stored procedures *)

\* SELECT COUNT(*) FROM projects WHERE id = p AND project_status = 'Activo'
ProjectExistsMut(projs, p) == IF p \in DOMAIN projs THEN 1 ELSE 0
ProjectExists(projs, p) ==
    IF p \in DOMAIN projs /\ projs[p].project_status = "Activo" THEN 1 ELSE 0

SetMax(S) == CHOOSE x \in S : \A y \in S : y <= x

\* SELECT COALESCE(MAX(CAST(SUBSTRING(volunteer_correlative, 11) AS UNSIGNED)), 0) + 1
\* FROM volunteers WHERE project_id = p
NextCorrelativeMut(vols, p) ==
    LET nums == {CorrelativeNumber(vols[i].volunteer_correlative) : i \in DOMAIN vols}
    IN  (IF nums = {} THEN 0 ELSE SetMax(nums)) + 1
NextCorrelative(vols, p) ==
    LET nums == {CorrelativeNumber(vols[i].volunteer_correlative) :
                    i \in {j \in DOMAIN vols : vols[j].project_id = p}}
    IN  (IF nums = {} THEN 0 ELSE SetMax(nums)) + 1

\* the row INSERT INTO volunteers (...) VALUES (...) hands to the trigger; the
\* columns the statement omits take their defaults
NewVolunteer(p, n, g, w, h, u) ==
    [project_id |-> p, volunteer_correlative |-> Concat(n), gender |-> g,
     weight_kg |-> w, height_m |-> h,
     bmi |-> Null, bmi_category |-> "Low", bmi_color |-> "Yellow",
     is_deleted |-> FALSE, deleted_at |-> Null, deleted_by |-> Null,
     registered_by |-> u, updated_at |-> now]

\* INSERT INTO volunteers: the trigger runs, then the unique index is checked
InsertVolunteerOkMut(vols, new) == ~InsertTriggerRaises(new)
InsertVolunteerOk(vols, new) ==
    ~InsertTriggerRaises(new) /\ UkCorrelativeProject(vols, new)

InsertVolunteer(vols, new) == Append(vols, CalculateBmiBeforeInsert(new))

\* p_reason: NULL, or a text of len characters
NoReason == [null |-> TRUE, len |-> 0]
Reasons == {NoReason, [null |-> FALSE, len |-> 14], [null |-> FALSE, len |-> ReasonMax]}

\* COALESCE(p_reason, 'No especificada'): its length
ReasonTextLen(reason) == IF reason.null THEN DefaultReasonLen ELSE reason.len

\* CONCAT('Eliminación de ', v_correlative, '. Razón: ', COALESCE(...)): its length
DescriptionLen(label, reason) ==
    DeletionPrefixLen + Len(label) + ReasonPrefixLen + ReasonTextLen(reason)

\* action_description VARCHAR(500): strict mode refuses a longer value
DescriptionTooLong(label, reason) == DescriptionLen(label, reason) > DescriptionMax

\* the description as stored: the label, the reason given and how many
\* characters of the reason text the column kept (the value is cut at the
\* column's length when the mode is not strict)
DeletionDescription(label, reason) ==
    [label |-> label, reason |-> reason,
     kept |-> IF DescriptionTooLong(label, reason)
              THEN ReasonTextLen(reason) - (DescriptionLen(label, reason) - DescriptionMax)
              ELSE ReasonTextLen(reason)]

\* a description that is no deletion text (project and create entries)
OtherDescription == [label |-> <<>>, reason |-> NoReason, kept |-> 0]

\* details_after of an entry without project fields
NoDetails == [project_status |-> Absent, responsible_user_id |-> Null]

AuditRowMut(etype, id, p, action, u) ==
    [entity_type |-> etype, entity_id |-> p, project_id |-> id,
     action_type |-> action, user_id |-> u, timestamp |-> now,
     details_after |-> NoDetails, action_description |-> OtherDescription]

\* a row of audit_trail; timestamp takes its default CURRENT_TIMESTAMP
AuditRow(etype, id, p, action, u) ==
    [entity_type |-> etype, entity_id |-> id, project_id |-> p,
     action_type |-> action, user_id |-> u, timestamp |-> now,
     details_after |-> NoDetails, action_description |-> OtherDescription]

AuditCount(aud, etype, id, action) ==
    Cardinality({i \in DOMAIN aud : /\ aud[i].entity_type = etype
                                    /\ aud[i].entity_id = id
                                    /\ aud[i].action_type = action})

Keys == ({"project"} \X (1..MaxProjects) \X {"CREATE", "UPDATE"})
        \cup ({"volunteer"} \X (1..MaxVolunteers) \X {"CREATE", "DELETE"})

Bump(f, etype, id, action) ==
    [f EXCEPT ![<<etype, id, action>>] = @ + 1]

\* the response of a call: the operation, the id it addressed, the outcome
Response(op, target, ok) == [op |-> op, target |-> target, ok |-> ok]

\* whether a statement fails for a storage reason (lost connection, lock
\* wait timeout, full disk): only where faults are admitted
FaultChoices == IF faults THEN {FALSE, TRUE} ELSE {FALSE}

----------------------------------------------------------------------------
(* Stored procedures, each call run to its end on one connection. The      *)
(* procedures open no transaction and declare no handler, so every         *)
(* statement commits on its own and an error ends the call where it is.    *)

\* CALL create_volunteer_with_audit(p, g, w, h, u, ip, agent); auditFails: the
\* INSERT INTO audit_trail fails for a storage reason
CreateVolunteerWithAudit(p, g, w, h, u) ==
    /\ IF ProjectExists(projects, p) = 0
       THEN /\ last' = Response("create_volunteer", p, FALSE)
            /\ UNCHANGED <<volunteers, audit, applied, succeeded>>
       ELSE LET n   == NextCorrelative(volunteers, p)
                new == NewVolunteer(p, n, g, w, h, u)
                id  == Len(volunteers) + 1
            IN  IF ~InsertVolunteerOk(volunteers, new)
                THEN /\ last' = Response("create_volunteer", p, FALSE)
                     /\ UNCHANGED <<volunteers, audit, applied, succeeded>>
                ELSE /\ volunteers' = InsertVolunteer(volunteers, new)
                     /\ applied' = Bump(applied, "volunteer", id, "CREATE")
                     /\ \E auditFails \in FaultChoices : IF auditFails
                        THEN /\ last' = Response("create_volunteer", p, FALSE)
                             /\ UNCHANGED <<audit, succeeded>>
                        ELSE /\ audit' = Append(audit,
                                     AuditRow("volunteer", id, p, "CREATE", u))
                             /\ succeeded' = Bump(succeeded, "volunteer", id, "CREATE")
                             /\ last' = Response("create_volunteer", p, TRUE)
    /\ UNCHANGED <<projects, now, strict, faults, meas, found, authVars, sessions>>

SelectVolunteerProjectMut(vols, v) ==
    IF v \in DOMAIN vols THEN vols[v].project_id ELSE Null

\* SELECT project_id, volunteer_correlative INTO ... FROM volunteers
\* WHERE id = v AND is_deleted = FALSE: the project id, NULL when no row
SelectVolunteerProject(vols, v) ==
    IF v \in DOMAIN vols /\ ~vols[v].is_deleted THEN vols[v].project_id ELSE Null

\* UPDATE volunteers SET is_deleted = TRUE, deleted_by = u,
\* deleted_at = CURRENT_TIMESTAMP WHERE id = v AND is_deleted = FALSE
MarkDeletedRows(vols, v) ==
    IF v \in DOMAIN vols /\ ~vols[v].is_deleted THEN 1 ELSE 0

MarkDeletedMut(vols, v, u, t) ==
    IF MarkDeletedRows(vols, v) = 0 THEN vols
    ELSE SubSeq(vols, 1, v - 1) \o SubSeq(vols, v + 1, Len(vols))

MarkDeleted(vols, v, u, t) ==
    IF MarkDeletedRows(vols, v) = 0 THEN vols
    ELSE [vols EXCEPT ![v] = OnUpdateTimestamp(vols[v],
              CalculateBmiBeforeUpdate(vols[v],
                  [vols[v] EXCEPT !.is_deleted = TRUE, !.deleted_by = u,
                                  !.deleted_at = t], t), t)]

\* ... INTO v_correlative: the label of the row the SELECT found
SelectVolunteerCorrelative(vols, v) ==
    IF v \in DOMAIN vols /\ ~vols[v].is_deleted THEN vols[v].volunteer_correlative
    ELSE <<>>

\* CALL soft_delete_volunteer(v, u, ip, agent, reason)
SoftDeleteVolunteer(v, u, reason) ==
    /\ IF SelectVolunteerProject(volunteers, v) = Null
       THEN /\ last' = Response("soft_delete", v, FALSE)
            /\ UNCHANGED <<volunteers, audit, applied, succeeded>>
       ELSE /\ volunteers' = MarkDeleted(volunteers, v, u, now)
            /\ IF MarkDeletedRows(volunteers, v) > 0
               THEN /\ applied' = Bump(applied, "volunteer", v, "DELETE")
                    /\ \E auditFails \in
                           (IF strict /\ DescriptionTooLong(
                                   SelectVolunteerCorrelative(volunteers, v), reason)
                            THEN {TRUE} ELSE FaultChoices) : IF auditFails
                       THEN /\ last' = Response("soft_delete", v, FALSE)
                            /\ UNCHANGED <<audit, succeeded>>
                       ELSE /\ audit' = Append(audit,
                                [AuditRow("volunteer", v,
                                     SelectVolunteerProject(volunteers, v), "DELETE", u)
                                 EXCEPT !.action_description = DeletionDescription(
                                     SelectVolunteerCorrelative(volunteers, v), reason)])
                            /\ succeeded' = Bump(succeeded, "volunteer", v, "DELETE")
                            /\ last' = Response("soft_delete", v, TRUE)
               ELSE /\ last' = Response("soft_delete", v, TRUE)
                    /\ UNCHANGED <<audit, applied, succeeded>>
    /\ UNCHANGED <<projects, now, strict, faults, meas, found, authVars, sessions>>

----------------------------------------------------------------------------
(* UPDATE volunteers SET ... WHERE id = v, as the volunteer update issues it *)

Keep == Null

\* the SET list: a column is Keep when the statement does not name it
Patches(ms) ==
           [weight_kg : {Keep} \cup {m[1] : m \in ms},
            height_m : {Keep} \cup {m[2] : m \in ms},
            derived : {<<Keep, "Keep", "Keep">>, <<1234, "High", "Yellow">>}]

ApplyPatch(old, patch) ==
    [old EXCEPT !.weight_kg = IF patch.weight_kg = Keep THEN @ ELSE patch.weight_kg,
                !.height_m = IF patch.height_m = Keep THEN @ ELSE patch.height_m,
                !.bmi = IF patch.derived[1] = Keep THEN @ ELSE patch.derived[1],
                !.bmi_category = IF patch.derived[2] = "Keep" THEN @
                                 ELSE patch.derived[2],
                !.bmi_color = IF patch.derived[3] = "Keep" THEN @ ELSE patch.derived[3]]

\* updateVolunteer requires the record to exist, not deleted, and its project
\* not Archived
UpdateVolunteerAllowed(v) ==
    /\ v \in DOMAIN volunteers
    /\ ~volunteers[v].is_deleted
    /\ projects[volunteers[v].project_id].project_status # "Archivado"

UpdateVolunteer(v, patch) ==
    /\ v \in DOMAIN volunteers
    /\ IF ~UpdateVolunteerAllowed(v)
       THEN /\ last' = Response("update_volunteer", v, FALSE)
            /\ UNCHANGED volunteers
       ELSE LET old == volunteers[v]
                new == ApplyPatch(old, patch)
            IN  IF UpdateTriggerRaises(old, new)
                THEN /\ last' = Response("update_volunteer", v, FALSE)
                     /\ UNCHANGED volunteers
                ELSE /\ volunteers' = [volunteers EXCEPT ![v] =
                            OnUpdateTimestamp(old,
                                CalculateBmiBeforeUpdate(old, new, now), now)]
                     /\ last' = Response("update_volunteer", v, TRUE)
    /\ UNCHANGED <<projects, audit, now, strict, faults, meas, found, authVars, sessions,
                   applied, succeeded>>

----------------------------------------------------------------------------
(* User model (user.model.js). The clock of the authentication counts      *)
(* minutes.                                                                *)

LoginProcs == 1..NumLogins

\* a users row as User.create leaves it
NewUser == [user_status |-> "Activo", failed_login_attempts |-> 0,
            account_locked_until |-> Null]

\* User.findById(id): SELECT id, username, email, user_role, user_status,
\* created_at, updated_at, created_by
UserFindById(us, id) == [user_status |-> us[id].user_status]

\* User.deactivate(id)
UserDeactivateMut(us, id) == us
UserDeactivate(us, id) == [us EXCEPT ![id].user_status = "Inactivo"]

\* User.update(id, {user_status})
UserUpdate(us, id, status) == [us EXCEPT ![id].user_status = status]

\* User.incrementFailedAttempts(userId): a single-table UPDATE evaluates its
\* assignments left to right, so the CASE reads the counter already
\* incremented by the first assignment
IncrementFailedAttempts(us, id, t) ==
    LET counter == us[id].failed_login_attempts + 1
    IN  [us EXCEPT ![id].failed_login_attempts = counter,
                   ![id].account_locked_until =
                       IF counter + 1 >= MaxLoginAttempts
                       THEN t + AccountLockoutMinutes ELSE @]

\* User.resetFailedAttempts(userId)
ResetFailedAttempts(us, id) ==
    [us EXCEPT ![id].failed_login_attempts = 0, ![id].account_locked_until = Null]

\* User.isAccountLocked(user) at time t; a field the row does not carry is
\* undefined
IsAccountLockedMut(user, t) == FALSE
IsAccountLocked(user, t) ==
    IF "account_locked_until" \notin DOMAIN user THEN FALSE
    ELSE IF user.account_locked_until = Null THEN FALSE
    ELSE user.account_locked_until > t

IdleLogin == [pc |-> "idle", user |-> Null]

InitAuth ==
    /\ users = [u \in Users |-> NewUser]
    /\ tokens = {}
    /\ logins = [p \in LoginProcs |-> IdleLogin]

----------------------------------------------------------------------------
(* Audit model (audit.model.js) *)

\* Audit.create(auditData): one INSERT INTO audit_trail; the new row's id is
\* its position
AuditCreateMut(rows, row) ==
    IF rows = <<>> THEN <<row>> ELSE [rows EXCEPT ![Len(rows)] = row]
AuditCreate(rows, row) == Append(rows, row)

\* the filters of Audit.findAll; a filter that is absent (falsy) adds no condition
NoFilters == [entity_type |-> Absent, action_type |-> Absent,
              user_id |-> Null, project_id |-> Null]

\* findAll: the WHERE clause built from the filters, the same text in the
\* page query and in the count query
WhereClause(row, filters) ==
    /\ filters.entity_type # Absent => row.entity_type = filters.entity_type
    /\ filters.action_type # Absent => row.action_type = filters.action_type
    /\ filters.user_id # Null => row.user_id = filters.user_id
    /\ filters.project_id # Null => row.project_id = filters.project_id

\* the ids of the rows the WHERE clause selects
Matching(rows, filters) == {i \in DOMAIN rows : WhereClause(rows[i], filters)}

\* ORDER BY a.timestamp DESC: the orders the server may produce for one
\* query. The timestamp is the only sort key, so rows with equal timestamps
\* come in any order, chosen anew by each query.
OrderByTimestampDesc(rows, ids) ==
    {ord \in [1..Cardinality(ids) -> ids] :
        /\ \A i, j \in DOMAIN ord : i # j => ord[i] # ord[j]
        /\ \A i, j \in DOMAIN ord :
              i < j => rows[ord[i]].timestamp >= rows[ord[j]].timestamp}

\* Math.ceil(total / limit)
Ceil(total, limit) == (total + limit - 1) \div limit

\* a page a client holds: not fetched yet, or the answer of findAll
NoPage == [fetched |-> FALSE, audits |-> <<>>, total |-> 0, totalPages |-> 0]

PageNumbers == 1..MaxEntries
NoPages == [p \in PageNumbers |-> NoPage]
NoSearch == [filters |-> NoFilters, limit |-> 1, pages |-> NoPages]

Min(a, b) == IF a < b THEN a ELSE b

\* findAll(filters, page, limit): LIMIT limit OFFSET (page - 1) * limit of the
\* ordered rows, with COUNT(*) of the same WHERE clause
FindAllResults(rows, filters, page, limit) ==
    LET ids    == Matching(rows, filters)
        total  == Cardinality(ids)
        offset == (page - 1) * limit
    IN  {[fetched |-> TRUE,
          audits |-> SubSeq(ord, offset + 1, Min(offset + limit, total)),
          total |-> total,
          totalPages |-> Ceil(total, limit)] : ord \in OrderByTimestampDesc(rows, ids)}

\* a client asks for one page; it keeps the pages of one filter set and limit
FindAll(filters, page, limit) ==
    /\ \E result \in FindAllResults(audit, filters, page, limit) :
          found' = [filters |-> filters, limit |-> limit,
                    pages |-> [(IF found.filters = filters /\ found.limit = limit
                                THEN found.pages ELSE NoPages)
                               EXCEPT ![page] = result]]
    /\ last' = Response("find_all", page, TRUE)
    /\ UNCHANGED <<projects, volunteers, audit, now, strict, faults, meas, sessions,
                   applied, succeeded, authVars>>

----------------------------------------------------------------------------
(* Project model (project.model.js) *)

\* Project.create(projectData): INSERT INTO projects; the status column takes
\* its default 'Activo'; returns the insert id
ProjectCreate(projs, responsible) ==
    Append(projs, [responsible_user_id |-> responsible, project_status |-> "Activo",
                   updated_at |-> now])

\* Project.findById(id)
ProjectFindById(projs, id) == id \in DOMAIN projs

\* the request bodies of PUT /projects/:id
Bodies == [project_status : Statuses \cup {Absent},
           responsible_user_id : {Null, 2}]

StatusBodies == {b \in Bodies : b.responsible_user_id = Null}

\* Project.update(id, body): UPDATE projects SET <the fields given> WHERE id = ?;
\* true when a row was updated
ProjectUpdateApplied(projs, id, body) ==
    /\ id \in DOMAIN projs
    /\ body.project_status # Absent \/ body.responsible_user_id # Null

ProjectUpdate(projs, id, body) ==
    [projs EXCEPT ![id] = OnUpdateTimestamp(@,
        [@ EXCEPT !.project_status = IF body.project_status = Absent THEN @
                                     ELSE body.project_status,
                  !.responsible_user_id = IF body.responsible_user_id = Null THEN @
                                          ELSE body.responsible_user_id], now)]

\* Project.archive(id): UPDATE projects SET project_status = 'Archivado' WHERE id = ?
ProjectArchive(projs, id) ==
    [projs EXCEPT ![id] = OnUpdateTimestamp(@, [@ EXCEPT !.project_status = "Archivado"],
                                            now)]

----------------------------------------------------------------------------
(* Project controller and its routes. Each model call is one statement on  *)
(* a pooled connection (pool.execute): auto-committed, no transaction.     *)

\* checkRole(roles)
CheckRole(roles, actor) == Role(actor) \in roles

\* createProject: req.user.role === 'Administrador'
\*     ? req.body.responsible_user_id || req.user.id : req.user.id
ProjectResponsibleMut(actor, bodyResponsible) ==
    IF bodyResponsible # Null THEN bodyResponsible ELSE actor
ProjectResponsible(actor, bodyResponsible) ==
    IF Role(actor) = "Administrador"
    THEN (IF bodyResponsible # Null THEN bodyResponsible ELSE actor)
    ELSE actor

\* POST /projects: checkRole(['Administrador', 'Usuario']), createProject
CreateProject(actor, bodyResponsible) ==
    /\ IF ~CheckRole({"Administrador", "Usuario"}, actor)
       THEN /\ last' = Response("create_project", Null, FALSE)
            /\ UNCHANGED <<projects, audit, applied, succeeded>>
       ELSE LET responsible == ProjectResponsible(actor, bodyResponsible)
                projectId == Len(projects) + 1
            IN  /\ projects' = ProjectCreate(projects, responsible)
                /\ applied' = Bump(applied, "project", projectId, "CREATE")
                /\ \E auditFails \in FaultChoices : IF auditFails
                   THEN /\ last' = Response("create_project", Null, FALSE)
                        /\ UNCHANGED <<audit, succeeded>>
                   ELSE /\ audit' = AuditCreate(audit,
                                [AuditRow("project", projectId, Null, "CREATE", actor)
                                 EXCEPT !.details_after =
                                     [project_status |-> Absent,
                                      responsible_user_id |-> responsible]])
                        /\ succeeded' = Bump(succeeded, "project", projectId, "CREATE")
                        /\ last' = Response("create_project", Null, TRUE)
    /\ UNCHANGED <<volunteers, now, strict, faults, meas, found, authVars, sessions>>

\* updateProject: a Usuario who is not the project's responsible user
UsuarioNotResponsibleMut(projs, id, actor) == FALSE
UsuarioNotResponsible(projs, id, actor) ==
    Role(actor) = "Usuario" /\ projs[id].responsible_user_id # actor

\* updateProject: a Calidad request whose body does not set the status to Archivado
CalidadNotArchiving(actor, body) ==
    Role(actor) = "Calidad" /\ body.project_status # "Archivado"

\* PUT /projects/:id: checkRole(all three roles), updateProject
UpdateProject(id, actor, body) ==
    /\ IF ~ProjectFindById(projects, id)
       THEN /\ last' = Response("update_project", id, FALSE)
            /\ UNCHANGED <<projects, audit, applied, succeeded>>
       ELSE IF UsuarioNotResponsible(projects, id, actor)
       THEN /\ last' = Response("update_project", id, FALSE)
            /\ UNCHANGED <<projects, audit, applied, succeeded>>
       ELSE IF CalidadNotArchiving(actor, body)
       THEN /\ last' = Response("update_project", id, FALSE)
            /\ UNCHANGED <<projects, audit, applied, succeeded>>
       ELSE IF ~ProjectUpdateApplied(projects, id, body)
       THEN /\ last' = Response("update_project", id, FALSE)
            /\ UNCHANGED <<projects, audit, applied, succeeded>>
       ELSE /\ projects' = ProjectUpdate(projects, id, body)
            /\ applied' = Bump(applied, "project", id, "UPDATE")
            /\ \E auditFails \in FaultChoices : IF auditFails
               THEN /\ last' = Response("update_project", id, FALSE)
                    /\ UNCHANGED <<audit, succeeded>>
               ELSE /\ audit' = AuditCreate(audit,
                            [AuditRow("project", id, Null, "UPDATE", actor)
                             EXCEPT !.details_after = body])
                    /\ succeeded' = Bump(succeeded, "project", id, "UPDATE")
                    /\ last' = Response("update_project", id, TRUE)
    /\ UNCHANGED <<volunteers, now, strict, faults, meas, found, authVars, sessions>>

\* PUT /projects/:id/archive: checkRole(['Administrador', 'Calidad']), archiveProject
ArchiveProject(id, actor) ==
    /\ IF ~CheckRole({"Administrador", "Calidad"}, actor)
       THEN /\ last' = Response("archive_project", id, FALSE)
            /\ UNCHANGED <<projects, audit, applied, succeeded>>
       ELSE IF ~ProjectFindById(projects, id)
       THEN /\ last' = Response("archive_project", id, FALSE)
            /\ UNCHANGED <<projects, audit, applied, succeeded>>
       ELSE /\ projects' = ProjectArchive(projects, id)
            /\ applied' = Bump(applied, "project", id, "UPDATE")
            /\ \E auditFails \in FaultChoices : IF auditFails
               THEN /\ last' = Response("archive_project", id, FALSE)
                    /\ UNCHANGED <<audit, succeeded>>
               ELSE /\ audit' = AuditCreate(audit,
                            [AuditRow("project", id, Null, "UPDATE", actor)
                             EXCEPT !.details_after =
                                 [project_status |-> "Archivado",
                                  responsible_user_id |-> Null]])
                    /\ succeeded' = Bump(succeeded, "project", id, "UPDATE")
                    /\ last' = Response("archive_project", id, TRUE)
    /\ UNCHANGED <<volunteers, now, strict, faults, meas, found, authVars, sessions>>

----------------------------------------------------------------------------
(* The store under sequential calls *)

\* 70.50 kg at 1.75 m
Measurements == {<<7050, 175>>}

IdleSession == [pc |-> "idle", p |-> Null, g |-> "Male", w |-> Null, h |-> Null,
                u |-> Null, next |-> Null, id |-> Null, label |-> <<>>,
                reason |-> NoReason]
IdleSessions == [s \in Procs |-> IdleSession]

InitHistory ==
    /\ applied = [k \in Keys |-> 0]
    /\ succeeded = [k \in Keys |-> 0]
    /\ last = Response("none", Null, TRUE)

RECURSIVE SumOver(_, _)
SumOver(f, S) == IF S = {} THEN 0
                 ELSE LET k == CHOOSE x \in S : TRUE
                      IN  f[k] + SumOver(f, S \ {k})

\* domain writes persisted so far
Writes == SumOver(applied, Keys)

\* the database as schema.sql leaves it: no project, volunteer or audit row
InitEmpty ==
    /\ projects = <<>>
    /\ volunteers = <<>>
    /\ audit = <<>>
    /\ now = 1
    /\ strict = TRUE
    /\ meas = Measurements
    /\ sessions = IdleSessions
    /\ found = NoSearch
    /\ InitAuth
    /\ InitHistory

\* every audit insert goes through
Init == InitEmpty /\ faults = FALSE

\* an audit insert may fail
InitFault == InitEmpty /\ faults = TRUE

\* the domain writes a behaviour may make
WriteBudget == IF faults THEN MaxFaultWrites ELSE MaxWrites

\* the ids a request may name: those in use and one that is not
ProjectIds == 1..(IF Len(projects) < MaxProjects THEN Len(projects) + 1 ELSE MaxProjects)
VolunteerIds == 1..(IF Len(volunteers) < MaxVolunteers THEN Len(volunteers) + 1
                    ELSE MaxVolunteers)

Next ==
    \/ /\ Len(projects) < MaxProjects
       /\ Writes < WriteBudget
       /\ \E a \in Users : CreateProject(a, Null)
    \/ /\ Writes < WriteBudget
       /\ \E id \in ProjectIds, a \in Users, b \in StatusBodies : UpdateProject(id, a, b)
    \/ /\ Writes < WriteBudget
       /\ \E id \in ProjectIds, a \in Users : ArchiveProject(id, a)
    \/ /\ Len(volunteers) < MaxVolunteers
       /\ Writes < WriteBudget
       /\ \E p \in ProjectIds, m \in meas : CreateVolunteerWithAudit(p, "Male", m[1], m[2], 2)
    \/ /\ Writes < WriteBudget
       /\ \E v \in VolunteerIds, u \in {1, 2} : SoftDeleteVolunteer(v, u, NoReason)

Spec == Init /\ [][Next]_vars

SpecFault == InitFault /\ [][Next]_vars

----------------------------------------------------------------------------
(* BMI on the write path: one insert of a measurement from the validated   *)
(* range, then updates of that row                                         *)

\* weights of the grid: the multiples of WeightStep, the scenarios, and the
\* weights that put the BMI on a threshold or on a rounding tie at 1.00 m / 2.00 m
SampleWeights ==
    {w \in 1..WeightMax : w % WeightStep = 0}
    \cup {1, 2, 1799, 1800, 2700, 2701, 4500, 4999, 7002, 7050, 12000, WeightMax}

BmiInputs == SampleWeights \X (HeightMin..HeightMax)

InitOneProject ==
    /\ now = 1
    /\ projects = ProjectCreate(<<>>, 2)
    /\ audit = <<[AuditRow("project", 1, Null, "CREATE", 2)
                  EXCEPT !.details_after.responsible_user_id = 2]>>
    /\ applied = [k \in Keys |-> IF k = <<"project", 1, "CREATE">> THEN 1 ELSE 0]
    /\ succeeded = applied
    /\ last = Response("create_project", Null, TRUE)
    /\ volunteers = <<>>
    /\ faults = FALSE
    /\ sessions = IdleSessions
    /\ found = NoSearch
    /\ InitAuth

InitBmi ==
    /\ InitOneProject
    /\ strict \in BOOLEAN
    /\ \E m \in BmiInputs : meas = {m}

NextBmi ==
    /\ volunteers = <<>>
    /\ \E m \in meas, g \in Genders : CreateVolunteerWithAudit(1, g, m[1], m[2], 2)

SpecBmi == InitBmi /\ [][NextBmi]_vars

----------------------------------------------------------------------------
(* Volunteer rows under inserts and UPDATE statements *)

\* 70.50 kg at 1.75 m, 45.00 kg at 1.80 m, 500.00 kg at 1.00 m
UpdateMeasurements == {<<7050, 175>>, <<4500, 180>>, <<WeightMax, HeightMin>>}

InitUpd ==
    /\ InitOneProject
    /\ strict = TRUE
    /\ meas = UpdateMeasurements

NextUpd ==
    \/ /\ Len(volunteers) < MaxVolunteers
       /\ \E m \in meas : CreateVolunteerWithAudit(1, "Female", m[1], m[2], 2)
    \/ \E v \in DOMAIN volunteers, patch \in Patches(meas) : UpdateVolunteer(v, patch)

SpecUpd == InitUpd /\ [][NextUpd]_vars


----------------------------------------------------------------------------
(* Volunteers of one project over time: creates, updates, soft-deletes *)

\* CURRENT_TIMESTAMP moves on
Tick ==
    /\ now < MaxTime
    /\ now' = now + 1
    /\ UNCHANGED <<projects, volunteers, audit, strict, faults, meas, found, authVars, sessions,
                   applied, succeeded, last>>

InitDel == InitOneProject /\ strict \in BOOLEAN /\ meas = Measurements

\* updates of the weight alone
WeightPatches ==
    {p \in Patches({<<4500, 180>>}) : p.height_m = Keep /\ p.derived[1] = Keep}

\* who deletes, and the reason given
DeleteRequests == {d \in {1, 2} \X Reasons : d[1] = 1 <=> d[2].null}

NextDel ==
    \/ Tick
    \/ /\ Len(volunteers) < MaxVolunteers
       /\ Len(audit) <= MaxDelWrites
       /\ \E m \in meas : CreateVolunteerWithAudit(1, "Male", m[1], m[2], 2)
    \/ /\ Len(audit) <= MaxDelWrites
       /\ \E v \in VolunteerIds, d \in DeleteRequests : SoftDeleteVolunteer(v, d[1], d[2])
    \/ \E v \in DOMAIN volunteers, patch \in WeightPatches : UpdateVolunteer(v, patch)

SpecDel == InitDel /\ [][NextDel]_vars

----------------------------------------------------------------------------
(* Project statistics: get_project_statistics and the view                 *)
(* project_statistics, over volunteers of two projects                     *)

\* LEFT JOIN volunteers v ON p.id = v.project_id AND v.is_deleted = FALSE:
\* the ids of the volunteer rows joined to project p
JoinedVolunteersMut(vols, p) == {i \in DOMAIN vols : vols[i].project_id = p}
JoinedVolunteers(vols, p) ==
    {i \in DOMAIN vols : vols[i].project_id = p /\ vols[i].is_deleted = FALSE}

\* SUM(CASE WHEN v.<column> = value THEN 1 ELSE 0 END)
SumCase(vols, ids, column, value) == Cardinality({i \in ids : vols[i][column] = value})

\* get_project_statistics(p_project_id): the counts of its one result row
GetProjectStatistics(vols, p) ==
    LET v == JoinedVolunteers(vols, p)
    IN  [total_volunteers  |-> Cardinality(v),
         low_count         |-> SumCase(vols, v, "bmi_category", "Low"),
         normal_count      |-> SumCase(vols, v, "bmi_category", "Normal"),
         high_count        |-> SumCase(vols, v, "bmi_category", "High"),
         male_count        |-> SumCase(vols, v, "gender", "Male"),
         female_count      |-> SumCase(vols, v, "gender", "Female"),
         unspecified_count |-> SumCase(vols, v, "gender", "Unspecified"),
         yellow_count      |-> SumCase(vols, v, "bmi_color", "Yellow"),
         green_count       |-> SumCase(vols, v, "bmi_color", "Green"),
         red_count         |-> SumCase(vols, v, "bmi_color", "Red")]

\* gender ENUM('Male', 'Female', 'Unspecified')
GenderValues == {"Male", "Female", "Unspecified"}

\* 45.00 kg at 1.80 m (13.89, Low), 70.50 kg at 1.75 m (23.02, Normal),
\* 90.00 kg at 1.70 m (31.14, High)
StatMeasurements == {<<4500, 180>>, <<7050, 175>>, <<9000, 170>>}

InitStat ==
    /\ now = 1
    /\ projects = ProjectCreate(ProjectCreate(<<>>, 2), 2)
    /\ audit = <<[AuditRow("project", 1, Null, "CREATE", 2)
                  EXCEPT !.details_after.responsible_user_id = 2],
                 [AuditRow("project", 2, Null, "CREATE", 2)
                  EXCEPT !.details_after.responsible_user_id = 2]>>
    /\ applied = [k \in Keys |-> IF k \in {<<"project", 1, "CREATE">>,
                                           <<"project", 2, "CREATE">>} THEN 1 ELSE 0]
    /\ succeeded = applied
    /\ last = Response("create_project", Null, TRUE)
    /\ volunteers = <<>>
    /\ strict = TRUE
    /\ faults = FALSE
    /\ meas = StatMeasurements
    /\ sessions = IdleSessions
    /\ found = NoSearch
    /\ InitAuth

NextStat ==
    \/ /\ Len(volunteers) < MaxVolunteers
       /\ \E pr \in {1, 2}, g \in GenderValues, m \in meas :
              CreateVolunteerWithAudit(pr, g, m[1], m[2], 2)
    \/ \E v \in DOMAIN volunteers :
          ~volunteers[v].is_deleted /\ SoftDeleteVolunteer(v, 2, NoReason)

SpecStat == InitStat /\ [][NextStat]_vars

----------------------------------------------------------------------------
(* validateVolunteer in front of the volunteer creation. The values of a   *)
(* JSON body are typed as JavaScript types them; numbers are in            *)
(* hundredths.                                                             *)

\* a number, a string (empty, the decimal text of num, or other text: nan),
\* a boolean (num is 100 for true, 0 for false), null, or a missing field
JsNumber(n) == [type |-> "number", num |-> n, nan |-> FALSE, empty |-> FALSE]
JsNumeric(n) == [type |-> "string", num |-> n, nan |-> FALSE, empty |-> FALSE]
JsText == [type |-> "string", num |-> 0, nan |-> TRUE, empty |-> FALSE]
JsEmpty == [type |-> "string", num |-> 0, nan |-> FALSE, empty |-> TRUE]
JsTrue == [type |-> "boolean", num |-> 100, nan |-> FALSE, empty |-> FALSE]
JsFalse == [type |-> "boolean", num |-> 0, nan |-> FALSE, empty |-> FALSE]
JsNull == [type |-> "null", num |-> 0, nan |-> FALSE, empty |-> FALSE]
JsUndefined == [type |-> "undefined", num |-> 0, nan |-> TRUE, empty |-> FALSE]

\* !v is false
Truthy(v) ==
    CASE v.type = "number"  -> ~v.nan /\ v.num # 0
      [] v.type = "string"  -> ~v.empty
      [] v.type = "boolean" -> v.num # 0
      [] OTHER              -> FALSE

\* isNaN(v): ToNumber(v) is NaN. '' and null convert to 0, true to 1
IsNaN(v) == v.nan

\* ToNumber(v) where it is not NaN
ToNumber(v) == v.num

\* the checks of weight_kg and of height_m: TRUE when an error is pushed
WeightError(w) ==
    IF ~Truthy(w) \/ IsNaN(w) THEN TRUE
    ELSE ToNumber(w) <= 0 \/ ToNumber(w) > WeightMax

HeightError(h) ==
    IF ~Truthy(h) \/ IsNaN(h) THEN TRUE
    ELSE ToNumber(h) < HeightMin \/ ToNumber(h) > HeightMax

\* gender && !validGenders.includes(gender)
GenderError(g) == g # Absent /\ g \notin {"Male", "Female", "Unspecified"}

\* validateVolunteer calls next()
ValidateVolunteerPasses(body) ==
    ~GenderError(body.gender) /\ ~WeightError(body.weight_kg) /\ ~HeightError(body.height_m)

\* the bodies of POST /projects/1/volunteers
WeightValues ==
    {JsNumber(n) : n \in {-100, 0, 1, 7050, WeightMax, WeightMax + 1}}
        \cup {JsNumeric(7050), JsText, JsEmpty, JsTrue, JsFalse, JsNull, JsUndefined}
HeightValues ==
    {JsNumber(n) : n \in {0, HeightMin - 1, HeightMin, 175, HeightMax, HeightMax + 1}}
        \cup {JsNumeric(175), JsText, JsTrue, JsNull, JsUndefined}
VolunteerBodies ==
    [gender : {Absent, "Male", "Other"}, weight_kg : WeightValues, height_m : HeightValues]

\* POST /projects/:id/volunteers: validateVolunteer, then the creation with
\* the body's values as the procedure's DECIMAL parameters
CreateVolunteerRequest(p, body, u) ==
    IF ValidateVolunteerPasses(body)
    THEN CreateVolunteerWithAudit(p, IF body.gender = Absent THEN "Unspecified"
                                     ELSE body.gender,
                                  ToNumber(body.weight_kg), ToNumber(body.height_m), u)
    ELSE /\ last' = Response("400", p, FALSE)
         /\ UNCHANGED <<projects, volunteers, audit, now, strict, faults, meas, found, authVars,
                        sessions, applied, succeeded>>

InitVal == InitOneProject /\ strict \in BOOLEAN /\ meas = Measurements

NextVal ==
    /\ Len(volunteers) < MaxVolunteers
    /\ \E body \in VolunteerBodies : CreateVolunteerRequest(1, body, 2)

SpecVal == InitVal /\ [][NextVal]_vars

----------------------------------------------------------------------------
(* Concurrent connections: each runs one CALL create_volunteer_with_audit, *)
(* statement by statement; statements of different connections interleave *)

Goto(s, pc) == [sessions EXCEPT ![s].pc = pc]

\* the CALL arrives
Call(s, p, g, w, h, u) ==
    /\ sessions[s].pc = "idle"
    /\ sessions' = [sessions EXCEPT ![s] =
           [IdleSession EXCEPT !.pc = "exists", !.p = p, !.g = g, !.w = w, !.h = h,
                               !.u = u]]
    /\ UNCHANGED <<projects, volunteers, audit, now, strict, faults, meas, found, authVars,
                   applied, succeeded, last>>

\* SELECT COUNT(*) INTO project_exists ...; IF project_exists = 0 THEN SIGNAL
StmtProjectExists(s) ==
    /\ sessions[s].pc = "exists"
    /\ IF ProjectExists(projects, sessions[s].p) = 0
       THEN /\ sessions' = Goto(s, "failed")
            /\ last' = Response("create_volunteer", sessions[s].p, FALSE)
       ELSE /\ sessions' = Goto(s, "max")
            /\ UNCHANGED last
    /\ UNCHANGED <<projects, volunteers, audit, now, strict, faults, meas, found, authVars,
                   applied, succeeded>>

\* SELECT COALESCE(MAX(...), 0) + 1 INTO next_correlative
StmtNextCorrelative(s) ==
    /\ sessions[s].pc = "max"
    /\ sessions' = [sessions EXCEPT ![s].pc = "insert",
                                    ![s].next = NextCorrelative(volunteers, sessions[s].p)]
    /\ UNCHANGED <<projects, volunteers, audit, now, strict, faults, meas, found, authVars,
                   applied, succeeded, last>>

\* INSERT INTO volunteers ...; SET volunteer_id = LAST_INSERT_ID()
StmtInsertVolunteer(s) ==
    /\ sessions[s].pc = "insert"
    /\ LET c   == sessions[s]
           new == NewVolunteer(c.p, c.next, c.g, c.w, c.h, c.u)
       IN  IF ~InsertVolunteerOk(volunteers, new)
           THEN /\ sessions' = Goto(s, "failed")
                /\ last' = Response("create_volunteer", c.p, FALSE)
                /\ UNCHANGED <<volunteers, applied>>
           ELSE /\ volunteers' = InsertVolunteer(volunteers, new)
                /\ applied' = Bump(applied, "volunteer", Len(volunteers) + 1, "CREATE")
                /\ sessions' = [sessions EXCEPT ![s].pc = "audit",
                                                ![s].id = Len(volunteers) + 1]
                /\ UNCHANGED last
    /\ UNCHANGED <<projects, audit, now, strict, faults, meas, found, authVars, succeeded>>

\* INSERT INTO audit_trail ...; SELECT volunteer_id AS new_volunteer_id, ...
StmtInsertAudit(s) ==
    /\ sessions[s].pc = "audit"
    /\ LET c == sessions[s]
       IN  /\ audit' = Append(audit, AuditRow("volunteer", c.id, c.p, "CREATE", c.u))
           /\ succeeded' = Bump(succeeded, "volunteer", c.id, "CREATE")
           /\ last' = Response("create_volunteer", c.p, TRUE)
    /\ sessions' = Goto(s, "done")
    /\ UNCHANGED <<projects, volunteers, now, strict, faults, meas, found, authVars, applied>>

\* two Active projects without volunteers, each with its CREATE entry
InitConc ==
    /\ now = 1
    /\ projects = ProjectCreate(ProjectCreate(<<>>, 2), 2)
    /\ audit = <<[AuditRow("project", 1, Null, "CREATE", 2)
                  EXCEPT !.details_after.responsible_user_id = 2],
                 [AuditRow("project", 2, Null, "CREATE", 2)
                  EXCEPT !.details_after.responsible_user_id = 2]>>
    /\ applied = [k \in Keys |-> IF k \in {<<"project", 1, "CREATE">>,
                                           <<"project", 2, "CREATE">>} THEN 1 ELSE 0]
    /\ succeeded = applied
    /\ last = Response("create_project", Null, TRUE)
    /\ volunteers = <<>>
    /\ strict = TRUE
    /\ faults = FALSE
    /\ meas = Measurements
    /\ sessions = IdleSessions
    /\ found = NoSearch
    /\ InitAuth

NextConc ==
    \E s \in Procs :
        \/ \E p \in {1, 2}, m \in meas : Call(s, p, "Male", m[1], m[2], 2)
        \/ StmtProjectExists(s)
        \/ StmtNextCorrelative(s)
        \/ StmtInsertVolunteer(s)
        \/ StmtInsertAudit(s)

SpecConc == InitConc /\ [][NextConc]_vars

----------------------------------------------------------------------------
(* Concurrent connections, each running one CALL soft_delete_volunteer     *)
(* statement by statement                                                  *)

\* the CALL arrives, for a volunteer that is not deleted
DeleteCall(s, v, u, reason) ==
    /\ sessions[s].pc = "idle"
    /\ v \in DOMAIN volunteers
    /\ ~volunteers[v].is_deleted
    /\ sessions' = [sessions EXCEPT ![s] =
           [IdleSession EXCEPT !.pc = "select", !.id = v, !.u = u, !.reason = reason]]
    /\ UNCHANGED <<projects, volunteers, audit, now, strict, faults, meas, found, authVars,
                   applied, succeeded, last>>

\* SELECT project_id, volunteer_correlative INTO v_project_id, v_correlative
\* ... WHERE id = p_volunteer_id AND is_deleted = FALSE;
\* IF v_project_id IS NULL THEN SIGNAL
StmtSelectVolunteer(s) ==
    /\ sessions[s].pc = "select"
    /\ LET c == sessions[s]
       IN  IF SelectVolunteerProject(volunteers, c.id) = Null
           THEN /\ sessions' = Goto(s, "failed")
                /\ last' = Response("soft_delete", c.id, FALSE)
           ELSE /\ sessions' = [sessions EXCEPT
                       ![s].pc = "update",
                       ![s].p = SelectVolunteerProject(volunteers, c.id),
                       ![s].label = SelectVolunteerCorrelative(volunteers, c.id)]
                /\ UNCHANGED last
    /\ UNCHANGED <<projects, volunteers, audit, now, strict, faults, meas, found, authVars,
                   applied, succeeded>>

\* UPDATE volunteers SET is_deleted = TRUE, ... WHERE id = p_volunteer_id
\* AND is_deleted = FALSE; SET rows_affected = ROW_COUNT();
\* IF rows_affected > 0 THEN ... END IF; SELECT rows_affected AS rows_updated
StmtMarkDeleted(s) ==
    /\ sessions[s].pc = "update"
    /\ LET c == sessions[s]
       IN  /\ volunteers' = MarkDeleted(volunteers, c.id, c.u, now)
           /\ IF MarkDeletedRows(volunteers, c.id) > 0
              THEN /\ applied' = Bump(applied, "volunteer", c.id, "DELETE")
                   /\ sessions' = Goto(s, "delete_audit")
                   /\ UNCHANGED last
              ELSE /\ sessions' = Goto(s, "done")
                   /\ last' = Response("soft_delete", c.id, TRUE)
                   /\ UNCHANGED applied
    /\ UNCHANGED <<projects, audit, now, strict, faults, meas, found, authVars, succeeded>>

\* INSERT INTO audit_trail (... 'DELETE' ..., CONCAT('Eliminación de ',
\* v_correlative, '. Razón: ', COALESCE(p_reason, 'No especificada')))
StmtInsertDeleteAudit(s) ==
    /\ sessions[s].pc = "delete_audit"
    /\ LET c == sessions[s]
       IN  IF strict /\ DescriptionTooLong(c.label, c.reason)
           THEN /\ sessions' = Goto(s, "failed")
                /\ last' = Response("soft_delete", c.id, FALSE)
                /\ UNCHANGED <<audit, succeeded>>
           ELSE /\ audit' = Append(audit,
                       [AuditRow("volunteer", c.id, c.p, "DELETE", c.u)
                        EXCEPT !.action_description =
                                   DeletionDescription(c.label, c.reason)])
                /\ succeeded' = Bump(succeeded, "volunteer", c.id, "DELETE")
                /\ last' = Response("soft_delete", c.id, TRUE)
                /\ sessions' = Goto(s, "done")
    /\ UNCHANGED <<projects, volunteers, now, strict, faults, meas, found, authVars,
                   applied>>

NextConcDel ==
    \/ /\ Len(volunteers) < MaxVolunteers
       /\ \E m \in meas : CreateVolunteerWithAudit(1, "Male", m[1], m[2], 2)
    \/ \E s \in Procs :
          \/ \E v \in VolunteerIds, d \in DeleteRequests : DeleteCall(s, v, d[1], d[2])
          \/ StmtSelectVolunteer(s)
          \/ StmtMarkDeleted(s)
          \/ StmtInsertDeleteAudit(s)

SpecConcDel == InitDel /\ [][NextConcDel]_vars

----------------------------------------------------------------------------
(* Project requests of every role: POST /projects with and without a       *)
(* responsible_user_id, PUT /projects/:id with every body, and archive     *)

\* the responsible_user_id of a POST /projects body: none, or one of the accounts
CreateResponsibles == {Null} \cup Users

NextProj ==
    \/ /\ Len(projects) < MaxProjects
       /\ Writes < MaxProjWrites
       /\ \E a \in Users, r \in CreateResponsibles : CreateProject(a, r)
    \/ /\ Writes < MaxProjWrites
       /\ \E id \in ProjectIds, a \in Users, b \in Bodies : UpdateProject(id, a, b)
    \/ /\ Writes < MaxProjWrites
       /\ \E id \in ProjectIds, a \in Users : ArchiveProject(id, a)

SpecProj == Init /\ [][NextProj]_vars

----------------------------------------------------------------------------
(* Volunteer-level edits behind checkResourceOwnership('volunteer') *)

\* whether `const db`, declared in the 'project' clause of the switch, has
\* been initialised when control enters the clause of resourceType: the
\* clauses share one block scope, and only the 'project' clause runs the
\* declaration
DbInitialised(resourceType) == resourceType = "project"

\* checkResourceOwnership(resourceType): "next", or the status it answers with
CheckResourceOwnership(resourceType, actor, id) ==
    IF Role(actor) = "Administrador" THEN "next"
    ELSE CASE resourceType = "project" ->
                 IF id \notin DOMAIN projects THEN "404"
                 ELSE IF projects[id].responsible_user_id # actor THEN "403"
                 ELSE "next"
           [] resourceType = "volunteer" ->
                 \* db.query(...) reads db: a ReferenceError, caught, answered 500
                 IF ~DbInitialised(resourceType) THEN "500"
                 ELSE IF id \notin DOMAIN volunteers THEN "404"
                 ELSE IF volunteers[id].registered_by # actor THEN "403"
                 ELSE "next"
           [] OTHER -> "403"

\* a soft-delete request for volunteer v: the middleware, then the procedure
DeleteVolunteerRequest(v, actor) ==
    LET outcome == CheckResourceOwnership("volunteer", actor, v)
    IN  IF outcome = "next"
        THEN SoftDeleteVolunteer(v, actor, NoReason)
        ELSE /\ last' = Response(outcome, v, FALSE)
             /\ UNCHANGED <<projects, volunteers, audit, now, strict, faults, meas, found, authVars,
                            sessions, applied, succeeded>>

NextOwn ==
    \/ /\ Len(projects) < MaxProjects
       /\ Writes < MaxWrites
       /\ \E a \in {1, 2} : CreateProject(a, Null)
    \/ /\ Len(volunteers) < MaxVolunteers
       /\ Writes < MaxWrites
       /\ \E pr \in ProjectIds, m \in meas, u \in {1, 2} :
              CreateVolunteerWithAudit(pr, "Male", m[1], m[2], u)
    \/ /\ Writes < MaxWrites
       /\ \E v \in VolunteerIds, a \in Users : DeleteVolunteerRequest(v, a)

SpecOwn == Init /\ [][NextOwn]_vars

----------------------------------------------------------------------------
(* Audit.findAll over a fixed log: a client pages through one search *)

\* the logs: entries about user accounts, written by accounts 1 and 2 at
\* times that never go back, each with the id of its position
LogEntries == {1, 2} \X {"CREATE", "UPDATE"} \X (1..MaxTime)

Logs ==
    UNION {{[i \in 1..n |->
               [AuditRow("user", i, Null, e[i][2], e[i][1]) EXCEPT !.timestamp = e[i][3]]] :
            e \in {x \in [1..n -> LogEntries] :
                      \A i, j \in 1..n : i < j => x[i][3] <= x[j][3]}} :
           n \in 0..MaxEntries}

\* the searches: everything, the entries of account 2, the CREATE entries
Searches == {f \in [entity_type : {Absent}, action_type : {Absent, "CREATE"},
                    user_id : {Null, 2}, project_id : {Null}] :
                f.action_type = Absent \/ f.user_id = Null}

InitFind ==
    /\ now = MaxTime
    /\ audit \in Logs
    /\ projects = <<>>
    /\ volunteers = <<>>
    /\ strict = TRUE
    /\ faults = FALSE
    /\ meas = Measurements
    /\ sessions = IdleSessions
    /\ InitHistory
    /\ \E f \in Searches, limit \in 1..MaxLimit :
          found = [filters |-> f, limit |-> limit, pages |-> NoPages]
    /\ InitAuth

NextFind == \E page \in PageNumbers : FindAll(found.filters, page, found.limit)

SpecFind == InitFind /\ [][NextFind]_vars

----------------------------------------------------------------------------
(* The audit trail under project and volunteer writes and audit queries *)

NextAudit ==
    \/ /\ Len(projects) < MaxProjects
       /\ Writes < MaxProjWrites
       /\ \E a \in {1, 2} : CreateProject(a, Null)
    \/ /\ Writes < MaxProjWrites
       /\ \E id \in ProjectIds, a \in {2, 3} :
              UpdateProject(id, a, [project_status |-> "Archivado",
                                    responsible_user_id |-> Null])
    \/ /\ Writes < MaxProjWrites
       /\ \E id \in ProjectIds : ArchiveProject(id, 1)
    \/ /\ Len(volunteers) < MaxVolunteers
       /\ Writes < MaxProjWrites
       /\ \E pr \in ProjectIds, m \in meas :
              CreateVolunteerWithAudit(pr, "Male", m[1], m[2], 2)
    \/ /\ Writes < MaxProjWrites
       /\ \E v \in VolunteerIds : SoftDeleteVolunteer(v, 2, NoReason)
    \/ /\ Writes < MaxProjWrites
       /\ \E page \in {1, 2} : FindAll(NoFilters, page, 1)

SpecAudit == Init /\ [][NextAudit]_vars

----------------------------------------------------------------------------
(* The scheduled events of schema.sql. One unit of the clock is six months. *)

\* audit_trail.user_id INT UNSIGNED NOT NULL REFERENCES users(id): a row
\* without a user is refused (NULL, or the implicit default 0 that no user has)
AuditUserConstraint(row) == row.user_id # Null

\* archive_old_projects: the cursor's rows
OldClosedProjects ==
    {id \in DOMAIN projects : /\ projects[id].project_status = "Cerrado"
                               /\ projects[id].updated_at < now - SixMonths}

\* archive_old_projects, one run: for each row of the cursor the UPDATE, then
\* the INSERT INTO audit_trail, which names no user_id; the event declares
\* no handler for an error, so the first failing INSERT ends the run
ArchiveOldProjects ==
    /\ IF OldClosedProjects = {}
       THEN /\ last' = Response("archive_old_projects", Null, TRUE)
            /\ UNCHANGED <<projects, audit, applied, succeeded>>
       ELSE LET row(id) == AuditRow("project", id, Null, "UPDATE", Null)
                ok == \A id \in OldClosedProjects : AuditUserConstraint(row(id))
                first == CHOOSE id \in OldClosedProjects :
                            \A other \in OldClosedProjects : id <= other
                done == IF ok THEN OldClosedProjects ELSE {first}
            IN  /\ projects' = [id \in DOMAIN projects |->
                                  IF id \in done THEN ProjectArchive(projects, id)[id]
                                  ELSE projects[id]]
                /\ applied' = [k \in Keys |->
                                  IF k[1] = "project" /\ k[2] \in done /\ k[3] = "UPDATE"
                                  THEN applied[k] + 1 ELSE applied[k]]
                /\ IF ok
                   THEN /\ audit' = audit \o [i \in 1..Cardinality(done) |->
                                row(CHOOSE id \in done :
                                      Cardinality({o \in done : o < id}) = i - 1)]
                        /\ succeeded' = [k \in Keys |->
                                  IF k[1] = "project" /\ k[2] \in done /\ k[3] = "UPDATE"
                                  THEN succeeded[k] + 1 ELSE succeeded[k]]
                        /\ last' = Response("archive_old_projects", Null, TRUE)
                   ELSE /\ last' = Response("archive_old_projects", first, FALSE)
                        /\ UNCHANGED <<audit, succeeded>>
    /\ UNCHANGED <<volunteers, now, strict, faults, meas, found, authVars, sessions>>

\* clean_old_login_attempts, one run: the DELETE on login_attempts (a table
\* outside this model), then the INSERT INTO audit_trail with user_id NULL
CleanOldLoginAttempts ==
    LET row == AuditRow("system", Null, Null, "UPDATE", Null)
    IN  /\ IF AuditUserConstraint(row)
           THEN /\ audit' = Append(audit, row)
                /\ last' = Response("clean_old_login_attempts", Null, TRUE)
           ELSE /\ last' = Response("clean_old_login_attempts", Null, FALSE)
                /\ UNCHANGED audit
        /\ UNCHANGED <<projects, volunteers, now, strict, faults, meas, found, authVars, sessions,
                       applied, succeeded>>

\* the clock of the sweeps
TickSweep ==
    /\ now < MaxSweepTime
    /\ now' = now + 1
    /\ UNCHANGED <<projects, volunteers, audit, strict, faults, meas, found, authVars, sessions,
                   applied, succeeded, last>>

NextSweep ==
    \/ TickSweep
    \/ /\ Len(projects) < MaxProjects
       /\ Writes < MaxProjWrites
       /\ \E a \in {1, 2} : CreateProject(a, Null)
    \/ /\ Writes < MaxProjWrites
       /\ \E id \in DOMAIN projects, st \in {"Cerrado", "Archivado"} :
              UpdateProject(id, 1, [project_status |-> st, responsible_user_id |-> Null])
    \/ ArchiveOldProjects
    \/ CleanOldLoginAttempts

SpecSweep == Init /\ [][NextSweep]_vars

----------------------------------------------------------------------------
(* Authentication: POST /login and authenticateToken, one request at a time *)

\* POST /login with the email of user u and a password that is correct or not
Login(u, correct) ==
    /\ IF u \notin DOMAIN users
       THEN /\ last' = Response("login", u, FALSE)
            /\ UNCHANGED <<users, tokens>>
       ELSE IF users[u].user_status # "Activo"
       THEN /\ last' = Response("login", u, FALSE)
            /\ UNCHANGED <<users, tokens>>
       ELSE IF IsAccountLocked(users[u], now)
       THEN /\ last' = Response("login", u, FALSE)
            /\ UNCHANGED <<users, tokens>>
       ELSE IF ~correct
       THEN /\ users' = IncrementFailedAttempts(users, u, now)
            /\ last' = Response("login", u, FALSE)
            /\ UNCHANGED tokens
       ELSE /\ users' = ResetFailedAttempts(users, u)
            /\ tokens' = tokens \cup {u}
            /\ last' = Response("login", u, TRUE)
    /\ UNCHANGED <<projects, volunteers, audit, now, strict, faults, meas, found, sessions,
                   applied, succeeded, logins>>

\* a request to a protected route with the token of user u: authenticateToken
AuthenticateToken(u) ==
    /\ u \in tokens
    /\ LET user == UserFindById(users, u)
       IN  last' = Response("request", u,
                       user.user_status = "Activo" /\ ~IsAccountLocked(user, now))
    /\ UNCHANGED <<projects, volunteers, audit, now, strict, faults, meas, found, sessions,
                   applied, succeeded, authVars>>

\* an Administrador deactivates, or reactivates, the account of user u
DeactivateUser(u) ==
    /\ users' = UserDeactivate(users, u)
    /\ last' = Response("deactivate", u, TRUE)
    /\ UNCHANGED <<projects, volunteers, audit, now, strict, faults, meas, found, sessions,
                   applied, succeeded, tokens, logins>>

ActivateUser(u) ==
    /\ users[u].user_status = "Inactivo"
    /\ users' = UserUpdate(users, u, "Activo")
    /\ last' = Response("activate", u, TRUE)
    /\ UNCHANGED <<projects, volunteers, audit, now, strict, faults, meas, found, sessions,
                   applied, succeeded, tokens, logins>>

\* a lockout period passes
TickAuth ==
    /\ now < 1 + MaxLockPeriods * AccountLockoutMinutes
    /\ now' = now + AccountLockoutMinutes
    /\ UNCHANGED <<projects, volunteers, audit, strict, faults, meas, found, sessions,
                   applied, succeeded, last, authVars>>

\* the accounts that log in: the Usuario account and an email no user has
LoginUsers == {2, 4}

NextAuth ==
    \/ TickAuth
    \/ \E u \in LoginUsers, correct \in BOOLEAN : Login(u, correct)
    \/ \E u \in tokens : AuthenticateToken(u)
    \/ DeactivateUser(2)
    \/ ActivateUser(2)

SpecAuth == Init /\ [][NextAuth]_vars

----------------------------------------------------------------------------
(* Concurrent POST /login requests with a wrong password for one account.  *)
(* The handler awaits each of its calls, so requests interleave between    *)
(* them.                                                                   *)

LoginGoto(p, pc) == [logins EXCEPT ![p].pc = pc]

LoginFrame ==
    UNCHANGED <<projects, volunteers, audit, now, strict, faults, meas, found, sessions,
                applied, succeeded, tokens>>

\* User.findByEmail, then the checks of status and lock on the row it returned
LoginFindByEmail(p, u) ==
    /\ logins[p].pc = "idle"
    /\ IF users[u].user_status # "Activo" \/ IsAccountLocked(users[u], now)
       THEN /\ logins' = [logins EXCEPT ![p] = [pc |-> "refused", user |-> u]]
            /\ last' = Response("login", u, FALSE)
       ELSE /\ logins' = [logins EXCEPT ![p] = [pc |-> "verify", user |-> u]]
            /\ UNCHANGED last
    /\ UNCHANGED users
    /\ LoginFrame

\* User.verifyPassword: the password is compared, and is wrong
LoginVerifyPassword(p) ==
    /\ logins[p].pc = "verify"
    /\ logins' = LoginGoto(p, "increment")
    /\ UNCHANGED <<users, last>>
    /\ LoginFrame

\* User.incrementFailedAttempts, then the 401
LoginIncrement(p) ==
    /\ logins[p].pc = "increment"
    /\ users' = IncrementFailedAttempts(users, logins[p].user, now)
    /\ logins' = LoginGoto(p, "done")
    /\ last' = Response("login", logins[p].user, FALSE)
    /\ LoginFrame

NextLogin ==
    \E p \in LoginProcs :
        \/ LoginFindByEmail(p, 2)
        \/ LoginVerifyPassword(p)
        \/ LoginIncrement(p)

SpecLogin == Init /\ [][NextLogin]_vars

----------------------------------------------------------------------------
(* Properties *)

\* the number n of a label 'Voluntario n'
LabelNumber(label) == CHOOSE n \in 0..99 : label = LabelPrefix \o Digits(n)

RowsOf(vols, p) == {i \in DOMAIN vols : vols[i].project_id = p}

NumbersOf(vols, p) == {LabelNumber(vols[i].volunteer_correlative) : i \in RowsOf(vols, p)}

\* w / h^2 rounded half-up to hundredths, from quotient and remainder
ExpectedBmi(w, h) ==
    LET num == w * 10000
        den == h * h
    IN  (num \div den) + (IF 2 * (num % den) >= den THEN 1 ELSE 0)

ExpectedCategory(b) == CASE b < 1800 -> "Low"
                         [] b >= 1800 /\ b <= 2700 -> "Normal"
                         [] b > 2700 -> "High"

ExpectedColor(b) == CASE b < 1800 -> "Yellow"
                      [] b >= 1800 /\ b <= 2700 -> "Green"
                      [] b > 2700 -> "Red"

(* C1: in every state each persisted domain change (project created, updated
   or archived, volunteer inserted or soft-deleted) has its audit entry: per
   entity and action, the audit entries number the persisted changes. *)
C1_DomainAndAuditAtomic ==
    \A k \in Keys : AuditCount(audit, k[1], k[2], k[3]) = applied[k]

(* C2: per entity and action, the audit entries number the calls that
   succeeded on it: a successful call adds one entry, a failed call none. *)
C2_AuditCountsSucceededCalls ==
    \A k \in Keys : AuditCount(audit, k[1], k[2], k[3]) = succeeded[k]

\* project 1 was updated twice: the first update succeeded and has its
\* entry, the second failed at its audit insert and has none
C2_Witness ==
    /\ succeeded[<<"project", 1, "UPDATE">>] = 1
    /\ applied[<<"project", 1, "UPDATE">>] = 2
    /\ AuditCount(audit, "project", 1, "UPDATE") = 1
    /\ last.op = "update_project" /\ ~last.ok

(* C3: under any interleaving of concurrent create_volunteer_with_audit
   calls, no two volunteer rows of one project carry the same correlative. *)
C3_NoDuplicateCorrelative ==
    \A i, j \in DOMAIN volunteers :
        (i # j /\ volunteers[i].project_id = volunteers[j].project_id)
            => volunteers[i].volunteer_correlative # volunteers[j].volunteer_correlative

\* two calls read the same maximum for the same project; one inserted its
\* row and the other was refused by the unique index
C3_Witness ==
    \E s, t \in Procs :
        /\ s # t
        /\ sessions[s].p = sessions[t].p
        /\ sessions[s].next = sessions[t].next
        /\ sessions[s].pc = "done"
        /\ sessions[t].pc = "failed"

(* C4: when N creations were issued concurrently for an Active, initially
   empty project and all have finished, all succeeded and the project holds
   exactly N volunteers numbered 1..N. *)
C4_ConcurrentCreatesAllSucceed ==
    (\A s \in Procs : sessions[s].pc \in {"done", "failed"})
        => \A p \in DOMAIN projects :
               LET callers == {s \in Procs : sessions[s].p = p}
               IN  /\ \A s \in callers : sessions[s].pc = "done"
                   /\ Cardinality(RowsOf(volunteers, p)) = Cardinality(callers)
                   /\ NumbersOf(volunteers, p) = 1..Cardinality(callers)

(* C5: a newly created volunteer gets number 1 in a project without rows and
   otherwise the maximum over all rows of the project, soft-deleted ones
   included, plus 1; rows keep their project and number and are never
   removed, so the new number is greater than every number ever assigned in
   the project. *)
C5_NextCorrelativeIsMaxPlusOne ==
    [][/\ \A v \in DOMAIN volunteers :
             /\ v \in DOMAIN volunteers'
             /\ volunteers'[v].project_id = volunteers[v].project_id
             /\ volunteers'[v].volunteer_correlative = volunteers[v].volunteer_correlative
       /\ \A v \in DOMAIN volunteers' \ DOMAIN volunteers :
             LET p     == volunteers'[v].project_id
                 prior == NumbersOf(volunteers, p)
                 n     == LabelNumber(volunteers'[v].volunteer_correlative)
             IN  /\ n = IF prior = {} THEN 1 ELSE SetMax(prior) + 1
                 /\ \A m \in prior : n > m]_vars

\* volunteer 1 was soft-deleted and the create that followed gave volunteer 2
\* of the same project the number 2, not the freed number 1
C5_Witness ==
    /\ Len(volunteers) = 2
    /\ volunteers[1].project_id = volunteers[2].project_id
    /\ volunteers[1].is_deleted
    /\ LabelNumber(volunteers[1].volunteer_correlative) = 1
    /\ LabelNumber(volunteers[2].volunteer_correlative) = 2
    /\ last.op = "create_volunteer" /\ last.ok

(* C6: for every weight in (0, 500] and height in [1.00, 2.50], the insert
   succeeds and stores bmi = w / h^2 rounded half-up to 2 decimals with the
   category and color of the threshold table. *)
C6_InsertStoresRoundedBmi ==
    last.op = "create_volunteer"
        => /\ last.ok
           /\ Len(volunteers) = 1
           /\ LET r == volunteers[1]
              IN  /\ r.bmi = ExpectedBmi(r.weight_kg, r.height_m)
                  /\ r.bmi_category = ExpectedCategory(r.bmi)
                  /\ r.bmi_color = ExpectedColor(r.bmi)

(* C7: in every state each volunteer's stored bmi, category and color are
   the values derived from its stored weight and height. *)
C7_DerivedFieldsAlwaysRecomputed ==
    \A v \in DOMAIN volunteers :
        LET r == volunteers[v]
            b == BmiValue(r.weight_kg, r.height_m)
        IN  /\ r.bmi = b
            /\ r.bmi_category = ExpectedCategory(b)
            /\ r.bmi_color = ExpectedColor(b)

(* C8: an update that leaves a volunteer's weight and height at their stored
   values leaves its bmi, category and color as they were. *)
C8_UpdateWithoutMeasurementChange ==
    [][\A v \in DOMAIN volunteers :
          (/\ last'.op = "update_volunteer" /\ last'.target = v
           /\ volunteers'[v].weight_kg = volunteers[v].weight_kg
           /\ volunteers'[v].height_m = volunteers[v].height_m)
              => /\ volunteers'[v].bmi = volunteers[v].bmi
                 /\ volunteers'[v].bmi_category = volunteers[v].bmi_category
                 /\ volunteers'[v].bmi_color = volunteers[v].bmi_color]_vars

(* C9: creating a volunteer for a project that does not exist or is not
   Active fails and changes nothing: no row, no correlative consumed, no
   audit entry. *)
C9_CreateOnInactiveProjectFails ==
    [][\A p \in 1..MaxProjects, m \in meas :
          (/\ CreateVolunteerWithAudit(p, "Male", m[1], m[2], 2)
           /\ (p \notin DOMAIN projects \/ projects[p].project_status # "Activo"))
              => /\ ~last'.ok
                 /\ volunteers' = volunteers
                 /\ audit' = audit
                 /\ projects' = projects]_vars

\* the latest call was a create for an existing project that is Closed, and
\* it failed leaving the project without volunteers and with its two entries
C9_Witness ==
    /\ last.op = "create_volunteer" /\ ~last.ok
    /\ last.target \in DOMAIN projects
    /\ projects[last.target].project_status = "Cerrado"
    /\ RowsOf(volunteers, last.target) = {}

(* C10: while a project is Archived no field of any of its volunteer rows
   changes: every update or soft-delete of them fails. *)
C10_ArchivedProjectFreezesVolunteers ==
    [][\A v \in DOMAIN volunteers :
          projects[volunteers[v].project_id].project_status = "Archivado"
              => volunteers'[v] = volunteers[v]]_vars

(* C11: a successful soft_delete_volunteer(v, u, .., reason) on a volunteer
   that is not deleted sets is_deleted, deleted_by = u and deleted_at = the
   current time, changes no other field of the row, and appends one DELETE
   entry for the volunteer and its project whose description holds the whole
   reason text (the 'not specified' text for a null reason). *)
C11_SoftDeleteEffect ==
    [][\A v \in 1..MaxVolunteers, u \in {1, 2}, r \in Reasons :
          (SoftDeleteVolunteer(v, u, r) /\ last'.ok)
              => /\ volunteers'[v] = [volunteers[v] EXCEPT !.is_deleted = TRUE,
                                                          !.deleted_by = u,
                                                          !.deleted_at = now]
                 /\ Len(audit') = Len(audit) + 1
                 /\ LET e == audit'[Len(audit')]
                    IN  /\ e.entity_type = "volunteer"
                        /\ e.entity_id = v
                        /\ e.project_id = volunteers[v].project_id
                        /\ e.action_type = "DELETE"
                        /\ e.action_description.reason = r
                        /\ e.action_description.kept = ReasonTextLen(r)]_vars

(* C12: soft-deleting a volunteer that is already soft-deleted, or that does
   not exist, fails and changes nothing: the row keeps the deleted_at and
   deleted_by of the first deletion and no DELETE entry is added. *)
C12_SecondSoftDeleteFails ==
    [][\A v \in 1..MaxVolunteers, d \in DeleteRequests :
          (/\ (v \notin DOMAIN volunteers \/ volunteers[v].is_deleted)
           /\ SoftDeleteVolunteer(v, d[1], d[2]))
              => /\ ~last'.ok
                 /\ volunteers' = volunteers
                 /\ audit' = audit]_vars

\* a volunteer deleted at time 1 with its one DELETE entry; a later
\* soft-delete of it, at time 2, was the latest call and failed
C12_Witness ==
    /\ last.op = "soft_delete" /\ ~last.ok
    /\ last.target \in DOMAIN volunteers
    /\ volunteers[last.target].is_deleted
    /\ volunteers[last.target].deleted_at = 1
    /\ now = 2
    /\ AuditCount(audit, "volunteer", last.target, "DELETE") = 1

(* C13: volunteer rows are never removed and a deletion is never undone:
   in every step the ids present stay present, and a row whose is_deleted
   is true keeps it true with the same deleted_at and deleted_by. *)
C13_DeletionIsIrreversible ==
    [][/\ DOMAIN volunteers \subseteq DOMAIN volunteers'
       /\ \A v \in DOMAIN volunteers :
             volunteers[v].is_deleted
                 => /\ volunteers'[v].is_deleted
                    /\ volunteers'[v].deleted_at = volunteers[v].deleted_at
                    /\ volunteers'[v].deleted_by = volunteers[v].deleted_by]_vars

\* volunteer 1 was deleted by user 1 at time 1; at time 2 volunteer 2 was
\* created and then an update of volunteer 1 was refused: volunteer 1 still
\* shows its deletion
C13_Witness ==
    /\ Len(volunteers) = 2
    /\ volunteers[1].is_deleted /\ volunteers[1].deleted_at = 1
    /\ volunteers[1].deleted_by = 1
    /\ volunteers[2].updated_at = 2
    /\ now = 2
    /\ last = Response("update_volunteer", 1, FALSE)

(* C14: project status only moves toward Archived: in no step does a
   project go from Archived to Closed or Active, nor from Closed to Active. *)
C14_StatusMovesTowardArchived ==
    [][\A id \in DOMAIN projects :
          /\ projects[id].project_status = "Archivado"
                 => projects'[id].project_status = "Archivado"
          /\ projects[id].project_status = "Cerrado"
                 => projects'[id].project_status \in {"Cerrado", "Archivado"}]_vars

(* C15: an updateProject request by a Usuario on a project whose responsible
   user is another account is rejected: the response is a failure, the
   project rows are unchanged and no audit entry is written. *)
C15_UsuarioUpdatesOnlyOwnProject ==
    [][\A id \in DOMAIN projects, b \in Bodies :
          (/\ projects[id].responsible_user_id # 2
           /\ UpdateProject(id, 2, b))
          => /\ ~last'.ok
             /\ projects' = projects
             /\ audit' = audit]_vars

\* an update of project 1, whose responsible user is the Administrador, was
\* refused while the Usuario is the responsible user of project 2 only
C15_Witness ==
    /\ last = Response("update_project", 1, FALSE)
    /\ Len(projects) = 2
    /\ projects[1].responsible_user_id = 1
    /\ projects[2].responsible_user_id = 2
    /\ Len(audit) = 2
    /\ audit[2].user_id = 2

(* C16: a request by a Calidad actor (create, update with any body, archive)
   creates no project, leaves every project's responsible user unchanged
   and leaves every status either unchanged or Archivado. *)
C16_CalidadOnlyArchives ==
    [][(\/ \E r \in CreateResponsibles : CreateProject(3, r)
        \/ \E id \in ProjectIds, b \in Bodies : UpdateProject(id, 3, b)
        \/ \E id \in ProjectIds : ArchiveProject(id, 3))
       => /\ Len(projects') = Len(projects)
          /\ \A id \in DOMAIN projects :
                /\ projects'[id].responsible_user_id = projects[id].responsible_user_id
                /\ projects'[id].project_status
                       \in {projects[id].project_status, "Archivado"}]_vars

(* C17: a soft-delete request for a volunteer by an actor who is not an
   Administrador is answered 404 when the volunteer does not exist, passes
   the ownership check when the actor is the responsible user of the
   volunteer's project or the user who registered the volunteer, and is
   answered 403 otherwise; an Administrador always passes. *)
C17_VolunteerEditOwnership ==
    [][\A v \in VolunteerIds, a \in Users :
          DeleteVolunteerRequest(v, a)
          => LET refusals == {"403", "404", "500"}
             IN  IF Role(a) = "Administrador" THEN last'.op \notin refusals
                 ELSE IF v \notin DOMAIN volunteers THEN last'.op = "404"
                 ELSE IF \/ volunteers[v].registered_by = a
                         \/ projects[volunteers[v].project_id].responsible_user_id = a
                      THEN last'.op \notin refusals
                 ELSE last'.op = "403"]_vars

(* C18: after a successful createProject the new project's responsible user
   is the actor, unless the actor is an Administrador whose body names a
   responsible_user_id, and then it is that user; the CREATE audit entry's
   after-snapshot carries the same responsible user. *)
C18_CreateProjectResponsible ==
    [][\A a \in Users, r \in CreateResponsibles :
          (CreateProject(a, r) /\ last'.ok)
          => LET expected == IF Role(a) = "Administrador" /\ r # Null THEN r ELSE a
                 entry == audit'[Len(audit')]
             IN  /\ Len(projects') = Len(projects) + 1
                 /\ projects'[Len(projects')].responsible_user_id = expected
                 /\ Len(audit') = Len(audit) + 1
                 /\ entry.action_type = "CREATE"
                 /\ entry.entity_id = Len(projects')
                 /\ entry.details_after.responsible_user_id = expected]_vars

\* an Administrador created a project for the Calidad account, and a Usuario
\* who named the Administrador became the responsible user themselves
C18_Witness ==
    /\ Len(projects) = 2
    /\ projects[1].responsible_user_id = 3
    /\ projects[2].responsible_user_id = 2
    /\ Len(audit) = 2
    /\ audit[1].user_id = 1 /\ audit[1].details_after.responsible_user_id = 3
    /\ audit[2].user_id = 2 /\ audit[2].details_after.responsible_user_id = 2

(* C19: the audit trail is append-only: in every step the entries that exist
   stay, at their ids and with all their field values, and at most one
   entry is added; a successful createProject, updateProject or
   archiveProject (each calls Audit.create once) adds exactly one, at the id
   that follows the last one, and an audit query adds none. *)
C19_AuditTrailAppendOnly ==
    [][/\ Len(audit') \in {Len(audit), Len(audit) + 1}
       /\ SubSeq(audit', 1, Len(audit)) = audit
       /\ (last'.op \in {"create_project", "update_project", "archive_project"}
             /\ last'.ok) => Len(audit') = Len(audit) + 1
       /\ last'.op = "find_all" => audit' = audit]_vars

\* a query read the first two entries (a project create, a volunteer create)
\* and an archiving update then added the third
C19_Witness ==
    /\ Len(audit) = 3
    /\ audit[1].action_type = "CREATE" /\ audit[1].entity_type = "project"
    /\ audit[2].action_type = "CREATE" /\ audit[2].entity_type = "volunteer"
    /\ audit[3].action_type = "UPDATE" /\ audit[3].entity_type = "project"
    /\ found.pages[1].fetched
    /\ found.pages[1].total = 2

(* C20: for a fixed audit log and filter set, every page findAll returned
   reports total = the number of entries matching the filters and
   totalPages = ceil(total / limit), and once pages 1..totalPages are all
   fetched they list every matching entry exactly once, newest timestamp
   first, page p holding positions (p-1)*limit+1 .. p*limit. *)
C20_FindAllPagesListEveryMatchOnce ==
    LET ids   == Matching(audit, found.filters)
        total == Cardinality(ids)
        pages == (total + found.limit - 1) \div found.limit
        at(k) == found.pages[((k - 1) \div found.limit) + 1].audits[((k - 1) % found.limit) + 1]
    IN  /\ \A p \in PageNumbers :
              found.pages[p].fetched => /\ found.pages[p].total = total
                                        /\ found.pages[p].totalPages = pages
        /\ (\A p \in 1..pages : found.pages[p].fetched)
              => /\ \A p \in 1..pages :
                       Len(found.pages[p].audits)
                           = Min(found.limit, total - (p - 1) * found.limit)
                 /\ \A k \in 1..total : at(k) \in ids
                 /\ \A j, k \in 1..total : j # k => at(j) # at(k)
                 /\ \A j, k \in 1..total :
                       j < k => audit[at(j)].timestamp >= audit[at(k)].timestamp

\* the volunteer rows of project p that are not deleted
LiveRows(vols, p) == {i \in DOMAIN vols : vols[i].project_id = p /\ ~vols[i].is_deleted}

StatisticsAddUp(vols, p) ==
    LET st == GetProjectStatistics(vols, p)
    IN  /\ st.total_volunteers = Cardinality(LiveRows(vols, p))
        /\ st.low_count + st.normal_count + st.high_count = st.total_volunteers
        /\ st.male_count + st.female_count + st.unspecified_count = st.total_volunteers
        /\ st.yellow_count + st.green_count + st.red_count = st.total_volunteers

\* st with the counts of row r one lower
OneLess(st, r) ==
    LET cat == [Low |-> "low_count", Normal |-> "normal_count", High |-> "high_count"]
        gen == [Male |-> "male_count", Female |-> "female_count",
                Unspecified |-> "unspecified_count"]
        col == [Yellow |-> "yellow_count", Green |-> "green_count", Red |-> "red_count"]
        hit == {"total_volunteers", cat[r.bmi_category], gen[r.gender], col[r.bmi_color]}
    IN  [f \in DOMAIN st |-> IF f \in hit THEN st[f] - 1 ELSE st[f]]

(* C21: in every state the statistics of each project count its non-deleted
   volunteers only: total_volunteers is the number of its rows with
   is_deleted false, and the category counts, the gender counts and the
   color counts each add up to it; a step that soft-deletes a volunteer
   lowers the total and that volunteer's category, gender and color counts
   of its project by exactly one and changes no other count. *)
C21_StatisticsCountLiveVolunteers ==
    [][/\ \A p \in DOMAIN projects :
             StatisticsAddUp(volunteers, p) /\ StatisticsAddUp(volunteers', p)
       /\ \A v \in DOMAIN volunteers :
             (~volunteers[v].is_deleted /\ volunteers'[v].is_deleted)
             => \A p \in DOMAIN projects :
                   GetProjectStatistics(volunteers', p)
                     = IF p = volunteers[v].project_id
                       THEN OneLess(GetProjectStatistics(volunteers, p), volunteers[v])
                       ELSE GetProjectStatistics(volunteers, p)]_vars

\* project 1 had a Normal Female and a High Unspecified volunteer, and the
\* first of them is soft-deleted
C21_Witness ==
    /\ Len(volunteers) = 2
    /\ volunteers[1].project_id = 1 /\ volunteers[2].project_id = 1
    /\ volunteers[1].is_deleted /\ ~volunteers[2].is_deleted
    /\ volunteers[1].gender = "Female" /\ volunteers[1].bmi_category = "Normal"
    /\ volunteers[2].gender = "Unspecified" /\ volunteers[2].bmi_category = "High"
    /\ GetProjectStatistics(volunteers, 1).total_volunteers = 1

\* weight_kg is a number (or its decimal text) in (0, 500]
WeightInRange(w) ==
    w.type \in {"number", "string"} /\ ~w.nan /\ ~w.empty /\ 0 < w.num /\ w.num <= 50000

\* height_m is a number (or its decimal text) in [1.00, 2.50]
HeightInRange(h) ==
    h.type \in {"number", "string"} /\ ~h.nan /\ ~h.empty /\ 100 <= h.num /\ h.num <= 250

(* C22: a volunteer creation request gets past validateVolunteer exactly
   when weight_kg is a number in (0, 500], height_m is a number in
   [1.00, 2.50] and gender, if given, is Male, Female or Unspecified;
   otherwise it is answered 400 and nothing is persisted. *)
C22_ValidateVolunteerAcceptsExactlyTheRange ==
    [][\A body \in VolunteerBodies :
          CreateVolunteerRequest(1, body, 2)
          => IF /\ WeightInRange(body.weight_kg)
                /\ HeightInRange(body.height_m)
                /\ body.gender \in {Absent, "Male", "Female", "Unspecified"}
             THEN last'.op # "400"
             ELSE /\ last'.op = "400"
                  /\ UNCHANGED <<projects, volunteers, audit>>]_vars

(* C23: every audit entry records the acting user (user_id is not NULL),
   the entries of the scheduled sweeps included, and every project that a
   run of archive_old_projects sets to Archivado gets an UPDATE audit entry
   in that run. *)
C23_EveryEntryNamesItsUser ==
    [][/\ \A i \in DOMAIN audit' : audit'[i].user_id # Null
       /\ last'.op = "archive_old_projects"
            => \A id \in DOMAIN projects :
                  (/\ projects[id].project_status # "Archivado"
                   /\ projects'[id].project_status = "Archivado")
                  => \E i \in DOMAIN audit' :
                        /\ i > Len(audit)
                        /\ audit'[i].entity_type = "project"
                        /\ audit'[i].entity_id = id
                        /\ audit'[i].action_type = "UPDATE"]_vars

(* C24: users are never removed, User.deactivate leaves the user's row in
   place with status Inactivo, and while the status is Inactivo every login
   of that user fails and issues no token, and every request with a token
   issued to the user earlier is refused by authenticateToken. *)
C24_DeactivationCutsAccess ==
    [][/\ DOMAIN users' = DOMAIN users
       /\ DeactivateUser(2) => users'[2].user_status = "Inactivo"
       /\ users[2].user_status = "Inactivo"
            => /\ \A correct \in BOOLEAN :
                     Login(2, correct) => ~last'.ok /\ tokens' = tokens
               /\ AuthenticateToken(2) => ~last'.ok]_vars

\* the Usuario holds a token from a login, is deactivated, and a request
\* with that token was refused
C24_Witness ==
    /\ users[2].user_status = "Inactivo"
    /\ 2 \in tokens
    /\ last = Response("request", 2, FALSE)

(* C25: while the account of an active user is locked (account_locked_until
   in the future) every login of that user fails, with the right password
   or a wrong one, issues no token and leaves failed_login_attempts and
   account_locked_until unchanged; once the lock time has passed a login
   with the right password succeeds and issues a token. *)
C25_LockedAccountRejectsLogin ==
    [][users[2].user_status = "Activo" /\ users[2].account_locked_until # Null
       => /\ users[2].account_locked_until > now
               => \A correct \in BOOLEAN :
                     Login(2, correct)
                     => ~last'.ok /\ tokens' = tokens /\ users' = users
          /\ users[2].account_locked_until <= now
               => (Login(2, TRUE) => last'.ok /\ 2 \in tokens')]_vars

\* a login was refused while the lock is running
C25_Witness ==
    /\ users[2].user_status = "Activo"
    /\ users[2].account_locked_until > now
    /\ now > 1
    /\ last = Response("login", 2, FALSE)

(* C26: a failed password check adds exactly 1 to failed_login_attempts and
   locks the account, for ACCOUNT_LOCKOUT_MINUTES, exactly when it brings
   the counter to MAX_LOGIN_ATTEMPTS or more (otherwise the lock is
   unchanged); a successful login sets the counter to 0 and clears the
   lock. *)
C26_LockAtMaxAttempts ==
    [][users[2].user_status = "Activo" /\ ~(users[2].account_locked_until > now)
       => /\ Login(2, FALSE)
               => /\ users'[2].failed_login_attempts
                         = users[2].failed_login_attempts + 1
                  /\ users'[2].account_locked_until
                         = IF users'[2].failed_login_attempts >= 5
                           THEN now + 15
                           ELSE users[2].account_locked_until
          /\ Login(2, TRUE)
               => /\ users'[2].failed_login_attempts = 0
                  /\ users'[2].account_locked_until = Null]_vars

(* C27: a request whose token belongs to a user whose account is locked
   (account_locked_until in the future) is refused by authenticateToken. *)
C27_LockedAccountTokenRejected ==
    [][(/\ 2 \in tokens
        /\ users[2].account_locked_until > now
        /\ AuthenticateToken(2))
       => ~last'.ok]_vars

\* the requests whose wrong password has been verified
Guesses == {p \in LoginProcs : logins[p].pc \in {"increment", "done"}}

(* C28: under any interleaving of concurrent logins with a wrong password
   against one account that starts with counter 0 and no lock, at most
   MAX_LOGIN_ATTEMPTS passwords are verified, and the counter equals the
   number of failed attempts that have run their increment. *)
C28_ConcurrentLoginsGetNoExtraGuesses ==
    /\ Cardinality(Guesses) <= 5
    /\ users[2].failed_login_attempts
          = Cardinality({p \in LoginProcs : logins[p].pc = "done"})

\* the DELETE entries of the audit trail for volunteer v
DeleteEntries(v) ==
    {i \in DOMAIN audit : /\ audit[i].entity_type = "volunteer"
                          /\ audit[i].entity_id = v
                          /\ audit[i].action_type = "DELETE"}

\* the connections that called soft_delete_volunteer for volunteer v
Callers(v) == {s \in Procs : sessions[s].pc # "idle" /\ sessions[s].id = v}

\* no call is between two of its statements
Quiescent == \A s \in Procs : sessions[s].pc \in {"idle", "done", "failed"}

\* C29: once the concurrent soft_delete_volunteer calls made on one
\* non-deleted volunteer have all ended, the volunteer is soft-deleted,
\* exactly one DELETE audit entry exists for it, and its deleted_by is the
\* actor of the call that wrote that entry
C29_ConcurrentSoftDeletesWriteOneEntry ==
    \A v \in DOMAIN volunteers :
        (Quiescent /\ Callers(v) # {}) =>
            /\ volunteers[v].is_deleted
            /\ Cardinality(DeleteEntries(v)) = 1
            /\ \A i \in DeleteEntries(v) : volunteers[v].deleted_by = audit[i].user_id

(* C30: every volunteer creation that validateVolunteer lets through can be
   stored: the rounded BMI of its weight and height is within the range of
   the column bmi (at most 99.99), and the creation neither fails nor stores
   a BMI other than the rounded one. *)
C30_AcceptedMeasurementsAreStorable ==
    [][\A body \in VolunteerBodies :
          (CreateVolunteerRequest(1, body, 2) /\ ValidateVolunteerPasses(body))
          => /\ ExpectedBmi(ToNumber(body.weight_kg), ToNumber(body.height_m))
                   <= BmiColumnMax
             /\ Len(volunteers') = Len(volunteers) + 1
             /\ volunteers'[Len(volunteers')].bmi
                   = ExpectedBmi(ToNumber(body.weight_kg),
                                 ToNumber(body.height_m))]_vars

====
